---- MODULE Spec2Model ----
(***************************************************************************)
(* Model of universe/dagger/pysdk/main.py: a module that creates an        *)
(* Environment, registers the coroutine functions publish (as a command)   *)
(* and lint (as a check), each of which builds a container query           *)
(*   dagger.container().from_(tag).with_exec(args).stdout()                *)
(* and returns the awaited result.  The engine behind the dagger client is *)
(* an external collaborator: it answers each request with a text or with a *)
(* failure, or not at all.                                                 *)
(***************************************************************************)
EXTENDS Naturals, Sequences, FiniteSets

\* Number of invocations the host makes in one run (invocation ids 1..MaxInvocations).
MaxInvocations == 2

Invocations == 1..MaxInvocations

\* Texts the engine may capture from standard output, and failures it may report.
Texts == {"Python 3.11.1\n", "Python 3.11.1"}
Failures == {"ImagePullError", "ExecError", "ConnectError"}

Outcomes == [kind : {"ok"}, value : Texts] \cup [kind : {"error"}, value : Failures]

NoResult == [kind |-> "none", value |-> ""]

VARIABLES
    loadpc,            \* position of the module's top-level code
    registry,          \* actions registered with env, in registration order
    engineIsFunction,  \* the engine's answer is a function of the request
    action,            \* action[i]: the function invocation i runs ("none" before the call)
    pc,                \* pc[i]: position of invocation i inside its coroutine
    handle,            \* handle[i]: the container handle built so far by invocation i
    calls,             \* calls[i]: client API calls made by invocation i, in order
    requests,          \* requests[i]: requests invocation i sent to the engine, in order
    responses,         \* responses[i]: the engine's answers to invocation i's requests
    result             \* result[i]: how invocation i ended (returned text / raised failure)

vars == <<loadpc, registry, engineIsFunction, action, pc, handle, calls, requests,
          responses, result>>

invVars == <<action, pc, handle, calls, requests, responses, result>>

----------------------------------------------------------------------------
(* The dagger client's builder API *)

\* dagger.container(): a fresh handle with no image and no exec steps
container == [image |-> "", execs |-> <<>>]

\* Container.from_(address)
from_(h, address) == [h EXCEPT !.image = address]

\* Container.with_exec(args)
with_exec(h, args) == [h EXCEPT !.execs = Append(h.execs, args)]

\* Container.stdout(): the request that asks the engine for the captured output
stdout(h) == [image |-> h.image, execs |-> h.execs, field |-> "stdout"]

----------------------------------------------------------------------------
(* dagger.server.Environment *)

\* the name under which the host sees a registered function
Label(kind, name) == IF kind = "check" THEN "check: " \o name ELSE name

\* env.command(fn) / env.check(fn): one registry entry for fn
Entry(kind, fn) ==
    [label |-> Label(kind, fn.name), kind |-> kind, name |-> fn.name,
     doc |-> fn.doc, nargs |-> fn.nargs, returns |-> fn.returns]

----------------------------------------------------------------------------
(* main.py: the two functions *)

PublishFn == [name |-> "publish", doc |-> "Publish the client.", nargs |-> 0, returns |-> "str"]

LintFn == [name |-> "lint", doc |-> "Lint the Python SDK", nargs |-> 0, returns |-> "str"]

PublishImage == "python:3.11.1-alpine"

PublishArgs == <<"python", "-V">>

\* variant: lint pinned to another image tag
LintImage_OtherTag == "python:3.12-alpine"

LintImage == "python:3.11.1-alpine"

LintArgs == <<"python", "-V">>

\* str.strip() on the two texts of the model
Strip(t) == IF t = "Python 3.11.1\n" THEN "Python 3.11.1" ELSE t

\* variant: publish returns the awaited text stripped
PublishResult_Stripped(o) ==
    IF o.kind = "ok" THEN [kind |-> "return", value |-> Strip(o.value)]
                     ELSE [kind |-> "raise", value |-> o.value]

\* `return await x` in publish: the awaited text is returned, a failure is raised as is
PublishResult(o) ==
    IF o.kind = "ok" THEN [kind |-> "return", value |-> o.value]
                     ELSE [kind |-> "raise", value |-> o.value]

\* variant: lint catches the failure and returns an empty text
LintResult_Fallback(o) ==
    IF o.kind = "ok" THEN [kind |-> "return", value |-> o.value]
                     ELSE [kind |-> "return", value |-> ""]

\* `return await x` in lint
LintResult(o) ==
    IF o.kind = "ok" THEN [kind |-> "return", value |-> o.value]
                     ELSE [kind |-> "raise", value |-> o.value]

----------------------------------------------------------------------------
Init ==
    /\ loadpc = "start"
    /\ registry = <<>>
    /\ engineIsFunction \in BOOLEAN
    /\ action = [i \in Invocations |-> "none"]
    /\ pc = [i \in Invocations |-> "idle"]
    /\ handle = [i \in Invocations |-> container]
    /\ calls = [i \in Invocations |-> <<>>]
    /\ requests = [i \in Invocations |-> <<>>]
    /\ responses = [i \in Invocations |-> <<>>]
    /\ result = [i \in Invocations |-> NoResult]

(* Module load *)

\* env = Environment()
NewEnvironment ==
    /\ loadpc = "start"
    /\ loadpc' = "env"
    /\ registry' = <<>>
    /\ UNCHANGED <<engineIsFunction, invVars>>

\* @env.command async def publish() -> str
RegisterPublish ==
    /\ loadpc = "env"
    /\ registry' = Append(registry, Entry("command", PublishFn))
    /\ loadpc' = "publish"
    /\ UNCHANGED <<engineIsFunction, invVars>>

\* variant: lint registered with env.command
RegisterLint_AsCommand ==
    /\ loadpc = "publish"
    /\ registry' = Append(registry, Entry("command", LintFn))
    /\ loadpc' = "loaded"
    /\ UNCHANGED <<engineIsFunction, invVars>>

\* @env.check async def lint() -> str
RegisterLint ==
    /\ loadpc = "publish"
    /\ registry' = Append(registry, Entry("check", LintFn))
    /\ loadpc' = "loaded"
    /\ UNCHANGED <<engineIsFunction, invVars>>

(* The host calls a registered action by its label *)
Invoke(i, label) ==
    /\ loadpc = "loaded"
    /\ pc[i] = "idle"
    /\ \A j \in Invocations : j < i => pc[j] # "idle"
    /\ \E k \in 1..Len(registry) :
         /\ registry[k].label = label
         /\ action' = [action EXCEPT ![i] = registry[k].name]
    /\ pc' = [pc EXCEPT ![i] = "called"]
    /\ UNCHANGED <<loadpc, registry, engineIsFunction, handle, calls, requests,
                   responses, result>>

(* publish *)

\* variant: publish continues from the handle an earlier invocation left behind
PublishContainer_Reused(i) ==
    /\ action[i] = "publish" /\ pc[i] = "called"
    /\ handle' = [handle EXCEPT ![i] = IF i > 1 THEN handle[i - 1] ELSE container]
    /\ calls' = [calls EXCEPT ![i] = Append(@, "container")]
    /\ pc' = [pc EXCEPT ![i] = "container"]
    /\ UNCHANGED <<loadpc, registry, engineIsFunction, action, requests, responses, result>>

\* dagger.container()
PublishContainer(i) ==
    /\ action[i] = "publish" /\ pc[i] = "called"
    /\ handle' = [handle EXCEPT ![i] = container]
    /\ calls' = [calls EXCEPT ![i] = Append(@, "container")]
    /\ pc' = [pc EXCEPT ![i] = "container"]
    /\ UNCHANGED <<loadpc, registry, engineIsFunction, action, requests, responses, result>>

\* .from_("python:3.11.1-alpine")
PublishFrom(i) ==
    /\ action[i] = "publish" /\ pc[i] = "container"
    /\ handle' = [handle EXCEPT ![i] = from_(@, PublishImage)]
    /\ calls' = [calls EXCEPT ![i] = Append(@, "from_")]
    /\ pc' = [pc EXCEPT ![i] = "from_"]
    /\ UNCHANGED <<loadpc, registry, engineIsFunction, action, requests, responses, result>>

\* .with_exec(["python", "-V"])
PublishWithExec(i) ==
    /\ action[i] = "publish" /\ pc[i] = "from_"
    /\ handle' = [handle EXCEPT ![i] = with_exec(@, PublishArgs)]
    /\ calls' = [calls EXCEPT ![i] = Append(@, "with_exec")]
    /\ pc' = [pc EXCEPT ![i] = "with_exec"]
    /\ UNCHANGED <<loadpc, registry, engineIsFunction, action, requests, responses, result>>

\* variant: publish may ask for the output before chaining the exec step
PublishStdout_BeforeExec(i) ==
    /\ action[i] = "publish" /\ pc[i] \in {"from_", "with_exec"}
    /\ calls' = [calls EXCEPT ![i] = Append(@, "stdout")]
    /\ requests' = [requests EXCEPT ![i] = Append(@, stdout(handle[i]))]
    /\ pc' = [pc EXCEPT ![i] = "awaiting"]
    /\ UNCHANGED <<loadpc, registry, engineIsFunction, action, handle, responses, result>>

\* await ... .stdout(): the request is sent and the coroutine suspends
PublishStdout(i) ==
    /\ action[i] = "publish" /\ pc[i] = "with_exec"
    /\ calls' = [calls EXCEPT ![i] = Append(@, "stdout")]
    /\ requests' = [requests EXCEPT ![i] = Append(@, stdout(handle[i]))]
    /\ pc' = [pc EXCEPT ![i] = "awaiting"]
    /\ UNCHANGED <<loadpc, registry, engineIsFunction, action, handle, responses, result>>

\* variant: publish resumes with an answer given to any invocation
PublishReturn_Crossed(i) ==
    /\ action[i] = "publish" /\ pc[i] = "awaiting"
    /\ Len(responses[i]) = Len(requests[i])
    /\ \E j \in Invocations :
         /\ responses[j] # <<>>
         /\ result' = [result EXCEPT ![i] = PublishResult(responses[j][Len(responses[j])])]
    /\ pc' = [pc EXCEPT ![i] = "done"]
    /\ UNCHANGED <<loadpc, registry, engineIsFunction, action, handle, calls, requests,
                   responses>>

\* the await resumes with the engine's answer; return it or let the failure propagate
PublishReturn(i) ==
    /\ action[i] = "publish" /\ pc[i] = "awaiting"
    /\ Len(responses[i]) = Len(requests[i])
    /\ result' = [result EXCEPT ![i] = PublishResult(responses[i][Len(responses[i])])]
    /\ pc' = [pc EXCEPT ![i] = "done"]
    /\ UNCHANGED <<loadpc, registry, engineIsFunction, action, handle, calls, requests,
                   responses>>

(* lint *)

\* dagger.container()
LintContainer(i) ==
    /\ action[i] = "lint" /\ pc[i] = "called"
    /\ handle' = [handle EXCEPT ![i] = container]
    /\ calls' = [calls EXCEPT ![i] = Append(@, "container")]
    /\ pc' = [pc EXCEPT ![i] = "container"]
    /\ UNCHANGED <<loadpc, registry, engineIsFunction, action, requests, responses, result>>

\* .from_("python:3.11.1-alpine")
LintFrom(i) ==
    /\ action[i] = "lint" /\ pc[i] = "container"
    /\ handle' = [handle EXCEPT ![i] = from_(@, LintImage)]
    /\ calls' = [calls EXCEPT ![i] = Append(@, "from_")]
    /\ pc' = [pc EXCEPT ![i] = "from_"]
    /\ UNCHANGED <<loadpc, registry, engineIsFunction, action, requests, responses, result>>

\* .with_exec(["python", "-V"])
LintWithExec(i) ==
    /\ action[i] = "lint" /\ pc[i] = "from_"
    /\ handle' = [handle EXCEPT ![i] = with_exec(@, LintArgs)]
    /\ calls' = [calls EXCEPT ![i] = Append(@, "with_exec")]
    /\ pc' = [pc EXCEPT ![i] = "with_exec"]
    /\ UNCHANGED <<loadpc, registry, engineIsFunction, action, requests, responses, result>>

\* await ... .stdout()
LintStdout(i) ==
    /\ action[i] = "lint" /\ pc[i] = "with_exec"
    /\ calls' = [calls EXCEPT ![i] = Append(@, "stdout")]
    /\ requests' = [requests EXCEPT ![i] = Append(@, stdout(handle[i]))]
    /\ pc' = [pc EXCEPT ![i] = "awaiting"]
    /\ UNCHANGED <<loadpc, registry, engineIsFunction, action, handle, responses, result>>

\* variant: lint sends the request once more after a failure
LintReturn_Retry(i) ==
    /\ action[i] = "lint" /\ pc[i] = "awaiting"
    /\ Len(responses[i]) = Len(requests[i])
    /\ IF responses[i][Len(responses[i])].kind = "error" /\ Len(requests[i]) < 2
         THEN /\ requests' = [requests EXCEPT ![i] = Append(@, stdout(handle[i]))]
              /\ UNCHANGED <<pc, result>>
         ELSE /\ result' = [result EXCEPT ![i] = LintResult(responses[i][Len(responses[i])])]
              /\ pc' = [pc EXCEPT ![i] = "done"]
              /\ UNCHANGED requests
    /\ UNCHANGED <<loadpc, registry, engineIsFunction, action, handle, calls, responses>>

\* variant: lint gives up on a request that has no answer yet
LintReturn_Timeout(i) ==
    /\ action[i] = "lint" /\ pc[i] = "awaiting"
    /\ result' = [result EXCEPT ![i] =
                    IF Len(responses[i]) = Len(requests[i])
                        THEN LintResult(responses[i][Len(responses[i])])
                        ELSE [kind |-> "raise", value |-> "TimeoutError"]]
    /\ pc' = [pc EXCEPT ![i] = "done"]
    /\ UNCHANGED <<loadpc, registry, engineIsFunction, action, handle, calls, requests,
                   responses>>

\* the await resumes with the engine's answer
LintReturn(i) ==
    /\ action[i] = "lint" /\ pc[i] = "awaiting"
    /\ Len(responses[i]) = Len(requests[i])
    /\ result' = [result EXCEPT ![i] = LintResult(responses[i][Len(responses[i])])]
    /\ pc' = [pc EXCEPT ![i] = "done"]
    /\ UNCHANGED <<loadpc, registry, engineIsFunction, action, handle, calls, requests,
                   responses>>

(* The external engine *)

\* the answers the engine has given so far to a request equal to r
AnswersTo(r) ==
    UNION {{responses[j][k] : k \in {n \in 1..Len(responses[j]) : requests[j][n] = r}} :
           j \in Invocations}

\* the engine answers the oldest unanswered request of invocation i with outcome o
EngineRespond(i, o) ==
    /\ Len(responses[i]) < Len(requests[i])
    /\ engineIsFunction =>
         AnswersTo(requests[i][Len(responses[i]) + 1]) \subseteq {o}
    /\ responses' = [responses EXCEPT ![i] = Append(@, o)]
    /\ UNCHANGED <<loadpc, registry, engineIsFunction, action, pc, handle, calls,
                   requests, result>>

\* the steps of invocation i that the event loop runs
Step(i) ==
    \/ PublishContainer(i)
    \/ PublishFrom(i)
    \/ PublishWithExec(i)
    \/ PublishStdout(i)
    \/ PublishReturn(i)
    \/ LintContainer(i)
    \/ LintFrom(i)
    \/ LintWithExec(i)
    \/ LintStdout(i)
    \/ LintReturn(i)

Next ==
    \/ NewEnvironment
    \/ RegisterPublish
    \/ RegisterLint
    \/ \E i \in Invocations : \E label \in {"publish", "check: lint"} : Invoke(i, label)
    \/ \E i \in Invocations : Step(i)
    \/ \E i \in Invocations : \E o \in Outcomes : EngineRespond(i, o)

Spec == Init /\ [][Next]_vars

\* the event loop runs every coroutine that is ready to run
LiveSpec == Spec /\ \A i \in Invocations : WF_vars(Step(i))

----------------------------------------------------------------------------
(* Properties *)

\* the engine's answer to the request invocation i is or was waiting for
Answer(i) == responses[i][Len(responses[i])]

Done(i) == pc[i] = "done"

\* the request both functions are written to send
FixedRequest ==
    [image |-> "python:3.11.1-alpine", execs |-> <<<<"python", "-V">>>>, field |-> "stdout"]

FixedOrder == <<"container", "from_", "with_exec", "stdout">>

IsPrefix(s, t) == Len(s) <= Len(t) /\ \A k \in 1..Len(s) : s[k] = t[k]

\* C1: whenever the engine answers publish's request with a text T, publish
\* returns exactly T, whatever T is (a trailing newline included).
C1_PublishReturnsTextVerbatim ==
    \A i \in Invocations :
        (action[i] = "publish" /\ Done(i) /\ Answer(i).kind = "ok")
            => result[i] = [kind |-> "return", value |-> Answer(i).value]

C1_Witness ==
    \E i \in Invocations :
        /\ action[i] = "publish" /\ Done(i)
        /\ Answer(i) = [kind |-> "ok", value |-> "Python 3.11.1\n"]
        /\ result[i].kind = "return"

\* C2: when the engine answers a request with a failure, the invocation (of
\* publish or of lint) ends by raising that same failure, and never by
\* returning a text.
C2_FailurePropagatesUnmodified ==
    \A i \in Invocations :
        (Done(i) /\ Answer(i).kind = "error")
            => /\ result[i] = [kind |-> "raise", value |-> Answer(i).value]
               /\ result[i].kind # "return"

C2_Witness ==
    \E i, j \in Invocations :
        /\ action[i] = "publish" /\ Done(i) /\ result[i] = [kind |-> "raise", value |-> "ConnectError"]
        /\ action[j] = "lint" /\ Done(j) /\ result[j] = [kind |-> "raise", value |-> "ImagePullError"]

\* C3: publish and lint send the same request (image python:3.11.1-alpine,
\* command python -V, standard output), so an engine whose answer is a
\* function of the request gives lint the outcome it gives publish.
C3_LintEquivalentToPublish ==
    \A i, j \in Invocations :
        (action[i] = "publish" /\ action[j] = "lint")
            => /\ (requests[i] # <<>> => requests[i] = <<FixedRequest>>)
               /\ (requests[j] # <<>> => requests[j] = <<FixedRequest>>)
               /\ (engineIsFunction /\ Done(i) /\ Done(j)) => result[i] = result[j]

C3_Witness ==
    \E i, j \in Invocations :
        /\ engineIsFunction
        /\ action[i] = "publish" /\ action[j] = "lint"
        /\ Done(i) /\ Done(j)
        /\ result[i].kind = "return"

\* C4: repeated invocations of the same action send the same request, and
\* with an engine whose answer is a function of the request they all end as
\* the first one did; no invocation starts from what an earlier one built.
C4_Idempotent ==
    \A i, j \in Invocations :
        (i < j /\ action[i] = action[j] /\ action[i] # "none")
            => /\ (pc[j] = "called" => calls[j] = <<>>)
               /\ (requests[i] # <<>> /\ requests[j] # <<>>) => requests[j] = requests[i]
               /\ (engineIsFunction /\ Done(i) /\ Done(j)) => result[j] = result[i]

C4_Witness ==
    \E i, j \in Invocations :
        /\ i < j /\ engineIsFunction
        /\ action[i] = action[j]
        /\ Done(i) /\ Done(j)
        /\ result[i].kind = "return"

\* C5: once the module is loaded the environment holds exactly two actions,
\* "publish" (a command) and "check: lint" (a check), each taking no argument
\* and returning text; nothing is ever registered twice.
C5_ExactlyTwoActions ==
    /\ \A k, l \in 1..Len(registry) : registry[k].label = registry[l].label => k = l
    /\ loadpc = "loaded" =>
         /\ Len(registry) = 2
         /\ {registry[k].label : k \in 1..Len(registry)} = {"publish", "check: lint"}
         /\ \A k \in 1..Len(registry) :
              /\ registry[k].nargs = 0
              /\ registry[k].returns = "str"
              /\ registry[k].label = "publish" =>
                   registry[k].name = "publish" /\ registry[k].kind = "command"
              /\ registry[k].label = "check: lint" =>
                   registry[k].name = "lint" /\ registry[k].kind = "check"

C5_Witness ==
    /\ loadpc = "loaded"
    /\ Len(registry) = 2
    /\ \E i \in Invocations : Done(i)

\* C6: inside every invocation the client calls happen in the order
\* container, from_ (with the fixed tag), with_exec, stdout; the request is
\* sent only after with_exec, and the invocation ends only after the request
\* was answered.
C6_FixedOrder ==
    \A i \in Invocations :
        /\ IsPrefix(calls[i], FixedOrder)
        /\ Len(calls[i]) >= 2 => handle[i].image = "python:3.11.1-alpine"
        /\ Len(calls[i]) >= 3 => handle[i].execs # <<>>
        /\ requests[i] # <<>> => (calls[i] = FixedOrder /\ requests[i][1].execs # <<>>)
        /\ Done(i) => (requests[i] # <<>> /\ Len(responses[i]) = Len(requests[i]))

C6_Witness ==
    \E i, j \in Invocations :
        /\ action[i] = "publish" /\ Done(i) /\ calls[i] = FixedOrder
        /\ action[j] = "lint" /\ Done(j) /\ calls[j] = FixedOrder

RECURSIVE NumRequests(_)
NumRequests(n) == IF n = 0 THEN 0 ELSE Len(requests[n]) + NumRequests(n - 1)

\* C7: an invocation sends at most one request, also after a failure, so the
\* requests sent are as many as the invocations that reached their await, and
\* as many as the invocations once all of them have ended.
C7_OneRequestPerInvocation ==
    /\ \A i \in Invocations :
         /\ Len(requests[i]) <= 1
         /\ pc[i] \in {"awaiting", "done"} => Len(requests[i]) = 1
    /\ NumRequests(MaxInvocations) =
         Cardinality({i \in Invocations : pc[i] \in {"awaiting", "done"}})
    /\ (\A i \in Invocations : pc[i] \in {"idle", "done"}) =>
         NumRequests(MaxInvocations) = Cardinality({i \in Invocations : pc[i] # "idle"})

C7_Witness ==
    /\ \A i \in Invocations : Done(i)
    /\ \E i, j \in Invocations :
         /\ action[i] = "publish" /\ result[i].kind = "raise"
         /\ action[j] = "lint" /\ result[j].kind = "raise"
    /\ NumRequests(MaxInvocations) = MaxInvocations

\* C8: with invocations interleaving at their awaits, each one sends the
\* request of the handle it built itself and ends with the engine's answer to
\* that request; once it has ended, nothing another invocation does (its
\* failure included) changes its outcome.
C8_InvocationsIsolated ==
    /\ [](\A i \in Invocations :
            /\ requests[i] # <<>> => requests[i] = <<stdout(handle[i])>>
            /\ Done(i) =>
                 /\ Answer(i).kind = "ok" => result[i] = [kind |-> "return", value |-> Answer(i).value]
                 /\ Answer(i).kind = "error" => result[i] = [kind |-> "raise", value |-> Answer(i).value])
    /\ [][\A i \in Invocations :
            Done(i) => (pc'[i] = "done" /\ result'[i] = result[i] /\ responses'[i] = responses[i])]_vars

C8_Witness ==
    \E i, j \in Invocations :
        /\ i < j
        /\ pc[i] = "awaiting" /\ responses[i] # <<>> /\ Answer(i).kind = "ok"
        /\ Done(j) /\ result[j].kind = "raise"

\* C9: an invocation whose request the engine answers ends (with a text or a
\* failure); an invocation leaves its await only with an answer to its
\* request, so one whose request is never answered stays suspended.
C9_CompletesIffAnswered ==
    /\ \A i \in Invocations :
         ((pc[i] = "awaiting") ~> (responses[i] # <<>>))
             => ((pc[i] # "idle") ~> Done(i))
    /\ [][\A i \in Invocations :
            (pc[i] = "awaiting" /\ pc'[i] # "awaiting") =>
                (pc'[i] = "done" /\ Len(responses[i]) = Len(requests[i]))]_vars
    /\ [](\A i \in Invocations : (Done(i) => result[i].kind \in {"return", "raise"}))

C9_Witness ==
    \E i, j \in Invocations :
        /\ Done(i) /\ result[i].kind \in {"return", "raise"}
        /\ pc[j] = "awaiting" /\ responses[j] = <<>>

====
